---- MODULE Spec2Model ----
(***************************************************************************)
(* Model of the rp1210-rs gateway core: the PushBus multi-cursor bus       *)
(* (bus.rs), Connection::iter_for (connection.rs) and Rp1210::send         *)
(* (rp1210.rs).  Time is in milliseconds.                                   *)
(***************************************************************************)
EXTENDS Integers, Sequences, FiniteSets, TLC

(* ---------------------------- bounds ----------------------------------- *)
MaxCursors == 2
MaxPush == 2
MaxSlack == 1
MaxIterFor == 1
MaxClose == 2
MaxIdles == 2
MaxClosable == 1
MaxRuns == 2

(* ------------------------ program constants ---------------------------- *)
\* thread::sleep(Duration::from_millis(1)) of an empty cursor read
Backoff == 1
\* Duration::from_secs(2) of Rp1210::send, in milliseconds
SendTimeout == 2000
\* verify_return: the largest driver return code that is a success
MaxOkCode == 127
\* Duration::from_secs_f32(0.25) after a read error, in milliseconds
ErrorBackoff == 250

(* ------------------------- input domains ------------------------------- *)
\* identifier and payload of the frames a poll of the adapter returns: the
\* echo of the outbound payload and foreign traffic
Wire == {[id |-> 11, data |-> 1], [id |-> 10, data |-> 2]}
\* the traffic of the other nodes alone
Foreign == {f \in Wire : f.data # 1}
\* driver return codes of RP1210_SendMessage (i16)
ReturnCodes == {-1, 0, 127, 128}
\* sizes returned by RP1210_ReadMessage: an error, no data, a frame
PollSizes == {-1, 0, 8}
\* return codes of RP1210_ClientConnect and of the RP1210_SendCommand calls
\* for address protection, echo and filters in API::client_connect
HandshakeCodes ==
    {<<0, 0, 0, 0>>, <<127, 0, 0, 0>>, <<-1, 0, 0, 0>>, <<0, 128, 0, 0>>,
     <<0, 0, -1, 0>>, <<0, 0, 0, 128>>}
\* the instants the clock is observed at: around the start and around the
\* send deadline
Times == {e + t : e \in {0, SendTimeout}, t \in 0..MaxSlack}
\* durations passed to iter_for by a consumer
Durations == {0, Backoff, SendTimeout}
\* the frame send() transmits
Outbound == [seq |-> 0, id |-> 10, data |-> 1]

VARIABLES
    iters,      \* PushBus.iters: the registry, a sequence of PushBusIter
    op,         \* holder of the registry mutex and its progress
    readers,    \* per cursor: the consumer that owns the boxed iterator
    snd,        \* the Rp1210::send call
    now,        \* Instant::now()
    pushed,     \* history: every frame handed to PushBus::push, in order
    running,    \* Rp1210.running: the run flag shared with the worker threads
    workers,    \* the threads spawned by Rp1210::run and their position
    conn,       \* history of the run, close and drop calls on the Rp1210
    closes      \* history of the completed PushBus::close calls

\* the Rp1210 side of the state, untouched by the bus and its consumers
ext == <<running, workers, conn, closes>>

vars == <<iters, op, readers, snd, now, pushed, running, workers, conn, closes>>

(* ------------------------------ values --------------------------------- *)
NoPacket == [seq |-> 0, id |-> 0, data |-> 0]
\* Option<T>
None == [some |-> FALSE, v |-> NoPacket]
Some(p) == [some |-> TRUE, v |-> p]
\* Option<Option<T>>, the Item of PushBusIter wrapped by Iterator::next
Closed == [some |-> FALSE, v |-> None]
SomeItem(o) == [some |-> TRUE, v |-> o]

Idle == [kind |-> "none", item |-> NoPacket, idx |-> 0]

\* a cursor of a bus that remembers that it was closed
NewIterSticky == [data |-> <<>>, running |-> closes.n = 0]

\* PushBusIter as created by PushBus::iter
NewIter == [data |-> <<>>, running |-> TRUE]

\* the consumer side of a cursor
NewReader(kind, end) ==
    [kind |-> kind, end |-> end, st |-> "ready", wake |-> 0,
     reg |-> Len(pushed), popped |-> <<>>, out |-> <<>>,
     last |-> "new", idles |-> 0]

\* Rp1210 as built by Rp1210::new, before any run
NewConn == [runs |-> 0, failed |-> 0, closed |-> FALSE, dropped |-> FALSE,
            pushedAtClose |-> 0, cursorsAtClose |-> 0]

NoCloses == [n |-> 0, upTo |-> 0]

\* the thread spawned by Rp1210::run, at the top of its loop
NewWorker == [pc |-> "top", wake |-> 0, errs |-> 0]

NewSend == [pc |-> "init", cur |-> 0, rc |-> 0, result |-> NoPacket,
            reads |-> 0, writes |-> 0, writeAt |-> 0]

(* ------------------------------- bus ----------------------------------- *)
\* PushBus::iter: a fresh cursor appended to the registry under its lock
Register(kind, end) ==
    /\ op.kind = "none"
    /\ Len(iters) < MaxCursors
    /\ iters' = Append(iters, NewIter)
    /\ readers' = Append(readers, NewReader(kind, end))

\* a queue that takes new items at its head
PushFront(q, item) == <<item>> \o q

\* VecDeque::push_back on one cursor queue
PushBack(q, item) == Append(q, item)

\* a read that takes an empty queue for the end of the stream
NextResultEmptyCloses(c) ==
    IF ~iters[c].running THEN Closed
    ELSE IF iters[c].data # <<>> THEN SomeItem(Some(Head(iters[c].data)))
    ELSE Closed

\* a read that drains its queue before it looks at the liveness flag
NextResultDrainFirst(c) ==
    IF iters[c].data # <<>> THEN SomeItem(Some(Head(iters[c].data)))
    ELSE IF ~iters[c].running THEN Closed
    ELSE SomeItem(None)

\* PushBusIter::next up to the pop: what the read finds
NextResult(c) ==
    IF ~iters[c].running THEN Closed
    ELSE IF iters[c].data # <<>> THEN SomeItem(Some(Head(iters[c].data)))
    ELSE SomeItem(None)

\* a closure that ends the sequence at the deadline instant itself
DeadlineClosureAtEnd(o, t, end) == IF t >= end THEN None ELSE o

\* a closure that looks at the clock on the idle path only
DeadlineClosureIdleOnly(o, t, end) == IF o.some THEN o ELSE None

\* the closure of map_while in Connection::iter_for, evaluated at instant t
DeadlineClosure(o, t, end) == IF t > end THEN None ELSE o

\* MapWhile::next over the cursor: None ends the sequence
IterForNext(raw, t, end) ==
    IF ~raw.some THEN None ELSE DeadlineClosure(raw.v, t, end)

\* a check of the return code that rejects negative codes only
VerifyReturnNegative(v) == ~(v < 0)

\* API::verify_return
VerifyReturn(v) == ~(v < 0 \/ v > MaxOkCode)

\* a predicate that wants the identifier of the outbound frame as well
EchoMatchExact(p) == p.data = Outbound.data /\ p.id = Outbound.id

\* the predicate of find in Rp1210::send
EchoMatch(p) == p.data = Outbound.data

LastOf(raw) ==
    IF ~raw.some THEN "closed" ELSE IF raw.v.some THEN "packet" ELSE "idle"

\* the consumer of cursor c receives raw from PushBusIter::next at instant now
ReaderAfter(r, raw) ==
    LET y == IterForNext(raw, now, r.end)
        base == [r EXCEPT !.last = LastOf(raw),
                          !.idles = IF LastOf(raw) = "idle" /\ @ < MaxIdles
                                    THEN @ + 1 ELSE @,
                          !.wake = 0,
                          !.popped = IF LastOf(raw) = "packet"
                                     THEN Append(@, raw.v.v) ELSE @]
    IN  IF r.kind = "iter"
        THEN [base EXCEPT !.st = "ready",
                          !.out = IF LastOf(raw) = "packet"
                                  THEN Append(@, raw.v.v) ELSE @]
        ELSE IF y.some
             THEN [base EXCEPT !.st = "ready", !.out = Append(@, y.v)]
             ELSE [base EXCEPT !.st = "ended"]

\* Iterator::find followed by unwrap in Rp1210::send, one stream item
SendAfter(c, raw) ==
    IF c # snd.cur THEN snd
    ELSE LET y == IterForNext(raw, now, readers[c].end)
             s == [snd EXCEPT !.reads = @ + 1]
         IN  IF ~y.some THEN [s EXCEPT !.pc = "panic"]
             ELSE IF EchoMatch(y.v) THEN [s EXCEPT !.pc = "ok", !.result = y.v]
             ELSE s

Deliver(c, raw) ==
    /\ readers' = [readers EXCEPT ![c] =
                      LET r == ReaderAfter(@, raw)
                      IN  IF c = snd.cur /\ SendAfter(c, raw).pc # "scan"
                          THEN [r EXCEPT !.st = "ended"] ELSE r]
    /\ snd' = SendAfter(c, raw)

\* a reader that keeps the guard of its queue alive across the sleep
DataLockedInSleep(c) == readers[c].st = "sleeping"

\* whether the consumer of cursor c holds the mutex of its queue between two
\* of its steps: the guard of data.lock() is a temporary of the pop_front
\* statement and is gone before the sleep
DataLocked(c) == FALSE

CanRead(c) ==
    /\ c \in 1..Len(iters)
    /\ c = snd.cur => snd.pc = "scan"

(* ------------------------------ actions -------------------------------- *)
\* a consumer calls Connection::iter
Iter ==
    /\ Register("iter", 0)
    /\ UNCHANGED <<op, snd, now, pushed, ext>>

\* a consumer calls Connection::iter_for(d)
IterFor(d) ==
    /\ Cardinality({c \in 1..Len(readers) : readers[c].kind = "iter_for"})
          < MaxIterFor
    /\ Register("iter_for", now + d)
    /\ UNCHANGED <<op, snd, now, pushed, ext>>

\* PushBusIter::next: running check and pop_front
Read(c) ==
    /\ CanRead(c)
    /\ readers[c].st = "ready"
    /\ LET raw == NextResult(c)
       IN  IF LastOf(raw) = "idle"
           THEN /\ readers' = [readers EXCEPT ![c].st = "sleeping",
                                              ![c].wake = now + Backoff]
                /\ UNCHANGED <<iters, snd>>
           ELSE /\ iters' = IF LastOf(raw) = "packet"
                            THEN [iters EXCEPT ![c].data = Tail(@)]
                            ELSE iters
                /\ Deliver(c, raw)
    /\ UNCHANGED <<op, now, pushed, ext>>

\* PushBusIter::next: the 1 ms sleep is over, Some(None) is returned
Wake(c) ==
    /\ CanRead(c)
    /\ readers[c].st = "sleeping"
    /\ now >= readers[c].wake
    /\ Deliver(c, SomeItem(None))
    /\ UNCHANGED <<iters, op, now, pushed, ext>>

\* PushBus::push: lock the registry.  seq numbers the pushes (history), it
\* stands for the adapter timestamp that tells two frames apart.
LockAndPush(f) ==
    /\ op.kind = "none"
    /\ Len(pushed) < MaxPush
    /\ LET item == [seq |-> Len(pushed) + 1, id |-> f.id, data |-> f.data]
       IN  /\ op' = [kind |-> "push", item |-> item, idx |-> 1]
           /\ pushed' = Append(pushed, item)

\* PushBus::push called by the polling worker
PushBegin(f) ==
    /\ LockAndPush(f)
    /\ UNCHANGED <<iters, readers, snd, now, ext>>

\* a push that serves the first cursor of the registry only
PushStepFirstOnly ==
    /\ op.kind = "push"
    /\ op.idx <= Len(iters)
    /\ ~DataLocked(op.idx)
    /\ iters' = IF op.idx = 1
                THEN [iters EXCEPT ![op.idx].data = PushBack(@, op.item)]
                ELSE iters
    /\ op' = [op EXCEPT !.idx = @ + 1]
    /\ UNCHANGED <<readers, snd, now, pushed, ext>>

\* PushBus::push: one turn of for_each
PushStep ==
    /\ op.kind = "push"
    /\ op.idx <= Len(iters)
    /\ ~DataLocked(op.idx)
    /\ iters' = [iters EXCEPT ![op.idx].data = PushBack(@, op.item)]
    /\ op' = [op EXCEPT !.idx = @ + 1]
    /\ UNCHANGED <<readers, snd, now, pushed, ext>>

\* PushBus::push: for_each is done, the registry guard is dropped
PushEnd ==
    /\ op.kind = "push"
    /\ op.idx > Len(iters)
    /\ op' = Idle
    /\ UNCHANGED <<iters, readers, snd, now, pushed, ext>>

\* a consumer calls Connection::iter on a bus that holds few cursors
IterFew ==
    /\ Len(iters) < MaxClosable
    /\ Iter

\* PushBus::close: lock the registry
CloseBegin ==
    /\ op.kind = "none"
    /\ closes.n < MaxClose
    /\ op' = [kind |-> "close", item |-> NoPacket, idx |-> 1]
    /\ UNCHANGED <<iters, readers, snd, now, pushed, ext>>

\* a close that flips the liveness flag
CloseStepToggle ==
    /\ op.kind = "close"
    /\ op.idx <= Len(iters)
    /\ iters' = [iters EXCEPT ![op.idx].running = ~@]
    /\ op' = [op EXCEPT !.idx = @ + 1]
    /\ UNCHANGED <<readers, snd, now, pushed, ext>>

\* PushBus::close: one turn of for_each, running.store(false)
CloseStep ==
    /\ op.kind = "close"
    /\ op.idx <= Len(iters)
    /\ iters' = [iters EXCEPT ![op.idx].running = FALSE]
    /\ op' = [op EXCEPT !.idx = @ + 1]
    /\ UNCHANGED <<readers, snd, now, pushed, ext>>

\* a close that empties the registry when it is done
CloseEndClear ==
    /\ op.kind = "close"
    /\ op.idx > Len(iters)
    /\ op' = Idle
    /\ closes' = [n |-> closes.n + 1, upTo |-> 0]
    /\ iters' = <<>>
    /\ readers' = <<>>
    /\ UNCHANGED <<snd, now, pushed, running, workers, conn>>

\* PushBus::close: for_each is done, the registry guard is dropped
CloseEnd ==
    /\ op.kind = "close"
    /\ op.idx > Len(iters)
    /\ op' = Idle
    /\ closes' = [n |-> closes.n + 1, upTo |-> Len(iters)]
    /\ UNCHANGED <<iters, readers, snd, now, pushed, running, workers, conn>>

\* Rp1210::send, line 1: the stream is opened
SendOpen ==
    /\ snd.pc = "init"
    /\ Register("iter_for", now + SendTimeout)
    /\ snd' = [snd EXCEPT !.pc = "opened", !.cur = Len(iters) + 1]
    /\ UNCHANGED <<op, now, pushed, ext>>

\* a send that transmits first and opens its stream afterwards
SendWriteThenOpen(rc) ==
    \/ /\ snd.pc = "opened"
       /\ snd' = [snd EXCEPT !.pc = IF VerifyReturn(rc) THEN "late" ELSE "err",
                             !.rc = rc,
                             !.writes = @ + 1,
                             !.writeAt = Len(pushed)]
       /\ UNCHANGED <<iters, op, readers, now, pushed, ext>>
    \/ /\ snd.pc = "late"
       /\ op.kind = "none"
       /\ iters' = Append(iters, NewIter)
       /\ readers' = Append(readers,
                            NewReader("iter_for", readers[snd.cur].end))
       /\ snd' = [snd EXCEPT !.pc = "scan", !.cur = Len(iters) + 1]
       /\ UNCHANGED <<op, now, pushed, ext>>

\* Rp1210::send, line 2 and the Err arm of map: API::send
SendWrite(rc) ==
    /\ snd.pc = "opened"
    /\ snd' = [snd EXCEPT !.pc = IF VerifyReturn(rc) THEN "scan" ELSE "err",
                          !.rc = rc,
                          !.writes = @ + 1,
                          !.writeAt = Len(pushed)]
    /\ UNCHANGED <<iters, op, readers, now, pushed, ext>>

\* the clock advances
Tick ==
    /\ \E t \in Times : t > now /\ now' = t
    /\ UNCHANGED <<iters, op, readers, snd, pushed, ext>>

Init ==
    /\ iters = <<>>
    /\ op = Idle
    /\ readers = <<>>
    /\ snd = NewSend
    /\ now = 0
    /\ pushed = <<>>
    /\ running = FALSE
    /\ workers = <<>>
    /\ conn = NewConn
    /\ closes = NoCloses

\* the bus and its raw cursors
Next ==
    \/ Iter
    \/ \E c \in 1..MaxCursors : Read(c)
    \/ \E c \in 1..MaxCursors : Wake(c)
    \/ \E f \in Wire : PushBegin(f)
    \/ PushStep
    \/ PushEnd
    \/ Tick

Spec == Init /\ [][Next]_vars

\* consumers of iter_for on the bus
NextIterFor ==
    \/ \E d \in Durations : IterFor(d)
    \/ \E c \in 1..MaxCursors : Read(c)
    \/ \E c \in 1..MaxCursors : Wake(c)
    \/ \E f \in Wire : PushBegin(f)
    \/ PushStep
    \/ PushEnd
    \/ Tick

SpecIterFor == Init /\ [][NextIterFor]_vars

\* one send call against the polling worker
NextSend ==
    \/ SendOpen
    \/ \E rc \in ReturnCodes : SendWrite(rc)
    \/ \E c \in 1..MaxCursors : Read(c)
    \/ \E c \in 1..MaxCursors : Wake(c)
    \/ \E f \in Wire : PushBegin(f)
    \/ PushStep
    \/ PushEnd
    \/ Tick

SpecSend == Init /\ [][NextSend]_vars

(* ------------------------- polling worker ----------------------------- *)
\* API::client_connect: the connect and the commands that follow it, each
\* through verify_return and the ? operator
ClientConnect(app, codes) ==
    /\ VerifyReturn(codes[1])
    /\ app \/ VerifyReturn(codes[2])
    /\ VerifyReturn(codes[3])
    /\ VerifyReturn(codes[4])

\* a run that raises the flag before the handshake
RunFlagFirst(app, codes) ==
    /\ ~conn.dropped
    /\ conn.runs < MaxRuns
    /\ running' = TRUE
    /\ IF ClientConnect(app, codes)
       THEN /\ workers' = Append(workers, NewWorker)
            /\ conn' = [conn EXCEPT !.runs = @ + 1, !.closed = FALSE]
       ELSE /\ workers' = workers
            /\ conn' = [conn EXCEPT !.runs = @ + 1, !.failed = @ + 1]
    /\ UNCHANGED <<iters, op, readers, snd, now, pushed, closes>>

\* Rp1210::run: handshake, running.store(true), thread::spawn
Run(app, codes) ==
    /\ ~conn.dropped
    /\ conn.runs < MaxRuns
    /\ IF ClientConnect(app, codes)
       THEN /\ running' = TRUE
            /\ workers' = Append(workers, NewWorker)
            /\ conn' = [conn EXCEPT !.runs = @ + 1, !.closed = FALSE]
       ELSE /\ running' = running
            /\ workers' = workers
            /\ conn' = [conn EXCEPT !.runs = @ + 1, !.failed = @ + 1]
    /\ UNCHANGED <<iters, op, readers, snd, now, pushed, closes>>

\* Rp1210::close: running.store(false)
RpClose ==
    /\ ~conn.dropped
    /\ running' = FALSE
    /\ conn' = [conn EXCEPT !.closed = TRUE,
                            !.pushedAtClose = Len(pushed),
                            !.cursorsAtClose = Len(iters)]
    /\ UNCHANGED <<iters, op, readers, snd, now, pushed, workers, closes>>

\* Drop for Rp1210: running.store(false), no call on the value afterwards
RpDrop ==
    /\ ~conn.dropped
    /\ running' = FALSE
    /\ conn' = [conn EXCEPT !.dropped = TRUE,
                            !.closed = TRUE,
                            !.pushedAtClose = Len(pushed),
                            !.cursorsAtClose = Len(iters)]
    /\ UNCHANGED <<iters, op, readers, snd, now, pushed, workers, closes>>

\* a loop that never looks at the run flag
WorkerCheckAlways(w) ==
    /\ w \in 1..Len(workers)
    /\ workers[w].pc = "top"
    /\ workers' = [workers EXCEPT ![w].pc = "read"]
    /\ UNCHANGED <<iters, op, readers, snd, now, pushed, running, conn, closes>>

\* the worker loop: while running.load(Relaxed)
WorkerCheck(w) ==
    /\ w \in 1..Len(workers)
    /\ workers[w].pc = "top"
    /\ workers' = [workers EXCEPT ![w].pc = IF running THEN "read" ELSE "done"]
    /\ UNCHANGED <<iters, op, readers, snd, now, pushed, running, conn, closes>>

\* a loop that gives up at the first read error
WorkerPollFatal(w, size, f) ==
    /\ w \in 1..Len(workers)
    /\ workers[w].pc = "read"
    /\ IF size > 0
       THEN /\ LockAndPush(f)
            /\ workers' = [workers EXCEPT ![w].pc = "push"]
       ELSE /\ workers' = [workers EXCEPT ![w].pc =
                              IF size < 0 THEN "done" ELSE "top"]
            /\ UNCHANGED <<op, pushed>>
    /\ UNCHANGED <<iters, readers, snd, now, running, conn, closes>>

\* the worker loop: one RP1210_ReadMessage and the branch on its size; a
\* frame goes to bus.push, an error is logged and followed by the 250 ms
\* sleep, no data goes back to the top of the loop
WorkerPoll(w, size, f) ==
    /\ w \in 1..Len(workers)
    /\ workers[w].pc = "read"
    /\ IF size > 0
       THEN /\ LockAndPush(f)
            /\ workers' = [workers EXCEPT ![w].pc = "push"]
       ELSE IF size < 0
       THEN /\ \E t \in Times : t >= now + ErrorBackoff
            /\ workers' = [workers EXCEPT ![w].pc = "backoff",
                                          ![w].wake = now + ErrorBackoff,
                                          ![w].errs = @ + 1]
            /\ UNCHANGED <<op, pushed>>
       ELSE /\ workers' = [workers EXCEPT ![w].pc = "top"]
            /\ UNCHANGED <<op, pushed>>
    /\ UNCHANGED <<iters, readers, snd, now, running, conn, closes>>

\* the worker loop: bus.push has returned
WorkerPushEnd(w) ==
    /\ w \in 1..Len(workers)
    /\ workers[w].pc = "push"
    /\ op.kind = "push"
    /\ op.idx > Len(iters)
    /\ op' = Idle
    /\ workers' = [workers EXCEPT ![w].pc = "top"]
    /\ UNCHANGED <<iters, readers, snd, now, pushed, running, conn, closes>>

\* the worker loop: the sleep after a read error is over
WorkerWake(w) ==
    /\ w \in 1..Len(workers)
    /\ workers[w].pc = "backoff"
    /\ now >= workers[w].wake
    /\ workers' = [workers EXCEPT ![w].pc = "top", ![w].wake = 0]
    /\ UNCHANGED <<iters, op, readers, snd, now, pushed, running, conn, closes>>

\* the steps of worker thread w
WorkerStep(w) ==
    \/ WorkerCheck(w)
    \/ \E size \in PollSizes, f \in Foreign : WorkerPoll(w, size, f)
    \/ (w \in 1..Len(workers) /\ workers[w].pc = "push" /\ PushStep)
    \/ WorkerPushEnd(w)
    \/ WorkerWake(w)

\* the Rp1210: run, close and drop calls, its worker threads and the cursors
\* they push to
NextWorker ==
    \/ \E app \in BOOLEAN, codes \in HandshakeCodes : Run(app, codes)
    \/ RpClose
    \/ RpDrop
    \/ Iter
    \/ \E w \in 1..MaxRuns : WorkerCheck(w)
    \/ \E w \in 1..MaxRuns, size \in PollSizes, f \in Foreign :
          WorkerPoll(w, size, f)
    \/ PushStep
    \/ \E w \in 1..MaxRuns : WorkerPushEnd(w)
    \/ \E w \in 1..MaxRuns : WorkerWake(w)
    \/ Tick

SpecWorker == Init /\ [][NextWorker]_vars

\* threads are scheduled and the clock advances
SpecWorkerFair ==
    /\ SpecWorker
    /\ WF_vars(Tick)
    /\ \A w \in 1..MaxRuns : WF_vars(WorkerStep(w))

\* the bus with raw cursors, pushes and close calls
NextClose ==
    \/ IterFew
    \/ \E c \in 1..MaxCursors : Read(c)
    \/ \E c \in 1..MaxCursors : Wake(c)
    \/ \E f \in Foreign : PushBegin(f)
    \/ PushStep
    \/ PushEnd
    \/ CloseBegin
    \/ CloseStep
    \/ CloseEnd
    \/ Tick

SpecClose == Init /\ [][NextClose]_vars

\* a consumer drops the boxed iterator of cursor c between two reads: the
\* registry keeps its own clone of the PushBusIter, and neither PushBusIter
\* nor PushBus has a Drop that takes it out
DropCursor(c) ==
    /\ c \in 1..Len(iters)
    /\ c # snd.cur
    /\ readers[c].st = "ready"
    /\ readers' = [readers EXCEPT ![c].st = "dropped"]
    /\ UNCHANGED <<iters, op, snd, now, pushed, ext>>

\* every way a cursor is made and given up on a bus that holds few cursors:
\* iter, iter_for, send, reads, drops, pushes and close calls, all within
\* the first millisecond, so that no backoff sleep of a reader is over yet
NextRegistry ==
    \/ IterFew
    \/ (Len(iters) < MaxClosable /\ \E d \in Durations : IterFor(d))
    \/ (Len(iters) < MaxClosable /\ SendOpen)
    \/ \E rc \in ReturnCodes : SendWrite(rc)
    \/ \E c \in 1..MaxCursors : Read(c)
    \/ \E c \in 1..MaxCursors : DropCursor(c)
    \/ \E f \in Wire : PushBegin(f)
    \/ PushStep
    \/ PushEnd
    \/ CloseBegin
    \/ CloseStep
    \/ CloseEnd

SpecRegistry == Init /\ [][NextRegistry]_vars

TypeOK ==
    /\ Len(iters) = Len(readers)
    /\ Len(iters) <= MaxCursors
    /\ now \in Times
(* --------------------------- properties ------------------------------- *)
IsPrefix(a, b) == Len(a) <= Len(b) /\ SubSeq(b, 1, Len(a)) = a

Cursors == 1..Len(iters)

\* the number of pushes whose for_each has reached cursor c
Arrived(c) ==
    IF op.kind = "push" /\ op.idx <= c THEN Len(pushed) - 1 ELSE Len(pushed)

\* the frames pushed since cursor c was registered that have reached it
Due(c) == SubSeq(pushed, readers[c].reg + 1, Arrived(c))

\* every frame ever appended to the queue of cursor c, in queue order
Delivered(c) == readers[c].popped \o iters[c].data

Exhausted(c) == iters[c].data = <<>> /\ op.kind # "push"

\* C1: a cursor of PushBus::iter yields, each as Some(frame), exactly the
\* frames pushed after its registration, in push order, and none of the
\* frames whose push completed before it was registered: what it has
\* yielded followed by what still waits in its queue is the push history
\* from its registration on.
C1_NoReplayFifo ==
    \A c \in Cursors :
        readers[c].kind = "iter" =>
            /\ readers[c].out \o iters[c].data = Due(c)
            /\ \A i \in 1..Len(readers[c].out) :
                   readers[c].out[i].seq > readers[c].reg

\* C1 witness: one cursor registered after a completed push has yielded a
\* later frame, and a cursor has yielded two frames.
C1_Witness ==
    /\ \E c \in Cursors :
           /\ readers[c].kind = "iter"
           /\ readers[c].reg >= 1
           /\ Len(readers[c].out) >= 1
    /\ \E c \in Cursors :
           /\ readers[c].kind = "iter"
           /\ Len(readers[c].out) >= 2

\* C2: cursors registered before the same sequence of pushes observe the
\* same frames in the same order however their reads interleave: at any
\* moment one has yielded a prefix of what the other has, and read to
\* exhaustion each has yielded all the frames pushed since.
C2_FanOut ==
    \A c \in Cursors : \A d \in Cursors :
        ( /\ readers[c].kind = "iter" /\ readers[d].kind = "iter"
          /\ readers[c].reg = readers[d].reg
          /\ iters[c].running /\ iters[d].running ) =>
            /\ \/ IsPrefix(readers[c].out, readers[d].out)
               \/ IsPrefix(readers[d].out, readers[c].out)
            /\ (Exhausted(c) /\ Exhausted(d)) =>
                   /\ readers[c].out = readers[d].out
                   /\ Len(readers[c].out) = Len(pushed) - readers[c].reg

\* C2 witness: two cursors with the same registration point have both been
\* read to exhaustion over two pushes.
C2_Witness ==
    \E c \in Cursors : \E d \in Cursors :
        /\ c # d
        /\ readers[c].reg = readers[d].reg
        /\ Exhausted(c) /\ Exhausted(d)
        /\ Len(readers[c].out) >= 2
        /\ Len(readers[d].out) >= 2

IterForCursors == {c \in Cursors : readers[c].kind = "iter_for"}

\* C3 as stated: iter_for yields every real frame its cursor read returns,
\* also past the deadline; no frame is discarded.
C3_FrameAlwaysYielded ==
    \A c \in IterForCursors : readers[c].out = readers[c].popped

\* C3 as amended: the deadline check gates every read.  A real frame the
\* cursor read returns no later than the deadline is yielded and the
\* sequence goes on; a real frame returned after the deadline is discarded
\* and ends the sequence.
C3_FrameYieldedUntilDeadline ==
    [][\A c \in IterForCursors :
          Len(readers'[c].popped) > Len(readers[c].popped) =>
              IF now <= readers[c].end
              THEN /\ readers'[c].out =
                         Append(readers[c].out,
                                readers'[c].popped[Len(readers'[c].popped)])
                   /\ c # snd.cur => readers'[c].st = "ready"
              ELSE /\ readers'[c].out = readers[c].out
                   /\ readers'[c].st = "ended"]_vars

\* C3 witness: an iter_for sequence has yielded a frame before its deadline
\* and has discarded the next frame, read after the deadline.
C3_Witness ==
    \E c \in IterForCursors :
        /\ Len(readers[c].out) >= 1
        /\ Len(readers[c].popped) = Len(readers[c].out) + 1
        /\ readers[c].st = "ended"
        /\ now > readers[c].end

\* C4: an idle read before the deadline does not end the sequence: as long
\* as the deadline has not passed and the bus is open, a frame that
\* reaches the queue of the iter_for cursor is still going to be read.
C4_IdleKeepsPolling ==
    \A c \in IterForCursors :
        (now <= readers[c].end /\ iters[c].running /\ iters[c].data # <<>>)
            => readers[c].st # "ended"

\* C5: the deadline of an iter_for sequence is never changed, and while no
\* frame has been pushed the sequence ends on an idle read after the
\* deadline only.
C5_EndsAfterDeadlineOnly ==
    [][\A c \in IterForCursors :
          /\ readers'[c].end = readers[c].end
          /\ ( /\ Len(pushed') = readers[c].reg
               /\ iters[c].running
               /\ readers[c].st # "ended"
               /\ readers'[c].st = "ended" ) =>
                  (readers'[c].last = "idle" /\ now > readers[c].end)]_vars

\* the driver accepted the write of send
WriteOk == snd.writes >= 1 /\ snd.rc >= 0 /\ snd.rc <= 127

\* the driver rejected the write of send
WriteFailed == snd.writes >= 1 /\ (snd.rc < 0 \/ snd.rc > 127)

\* positions in the push history, after the write of send, of the frames
\* that carry the outbound payload and have reached the cursor of send
EchoesArrived ==
    {i \in (snd.writeAt + 1)..Arrived(snd.cur) :
        pushed[i].data = Outbound.data}

\* C6: when the worker pushes the echo of the written payload before the
\* deadline, send returns Ok with a frame of that payload, also when the
\* echo comes after idle reads of its cursor: a send that has resolved
\* while an echo pushed before the deadline has reached its cursor has
\* resolved to Ok.
C6_EchoReturned ==
    ( /\ WriteOk
      /\ snd.pc # "scan"
      /\ iters[snd.cur].running
      /\ now <= readers[snd.cur].end
      /\ EchoesArrived # {} ) =>
          (snd.pc = "ok" /\ snd.result.data = Outbound.data)

\* C7: a send whose write succeeded and that resolves without a matching
\* frame returns the timeout error value, not before the deadline; it
\* neither panics nor returns Ok.
C7_TimeoutIsError ==
    (WriteOk /\ snd.pc \notin {"scan", "ok"}) =>
        (snd.pc = "timeout" /\ now >= readers[snd.cur].end)

\* C8: send registers its cursor before it issues the write, so every frame
\* pushed after the write was issued (the echo among them) is appended to
\* the queue of that cursor.
C8_CursorBeforeWrite ==
    snd.writes >= 1 =>
        /\ snd.cur \in Cursors
        /\ readers[snd.cur].reg <= snd.writeAt
        /\ Delivered(snd.cur) = Due(snd.cur)
        /\ \A i \in (snd.writeAt + 1)..Arrived(snd.cur) :
               \E k \in 1..Len(Delivered(snd.cur)) :
                   Delivered(snd.cur)[k] = pushed[i]

\* C8 witness: an echo pushed after the write sits in the queue of the
\* cursor of send, behind a frame pushed between the open and the write.
C8_Witness ==
    /\ snd.pc = "scan"
    /\ snd.writeAt > readers[snd.cur].reg
    /\ \E k \in 1..Len(iters[snd.cur].data) :
           /\ iters[snd.cur].data[k].seq > snd.writeAt
           /\ iters[snd.cur].data[k].data = Outbound.data

\* C9: a write the driver rejects (return code < 0 or > 127) makes send
\* return the error at once: no read of its cursor, no wait, no second
\* write.
C9_WriteFailureImmediate ==
    WriteFailed =>
        /\ snd.pc = "err"
        /\ snd.writes = 1
        /\ snd.reads = 0
        /\ readers[snd.cur].last = "new"
        /\ readers[snd.cur].st = "ready"
        /\ readers[snd.cur].popped = <<>>

\* C9 witness: send has returned the error of a rejected write with code
\* 128 while a frame with the outbound payload waits unread in its queue.
C9_Witness ==
    /\ snd.pc = "err"
    /\ snd.rc = 128
    /\ \E k \in 1..Len(iters[snd.cur].data) :
           iters[snd.cur].data[k].data = Outbound.data

\* C10: send does not go on past its deadline: a read of its cursor that
\* completes after the deadline resolves the call, whatever the read
\* returned, so a bus that always has a non-matching frame ready cannot
\* keep it scanning.
C10_ResolvesAtDeadline ==
    [][( /\ snd.pc = "scan"
         /\ snd'.reads = snd.reads + 1
         /\ now > readers[snd.cur].end ) =>
            snd'.pc \in {"ok", "panic"}]_vars

\* C10 witness: the cursor of send was never idle, it delivered only
\* non-matching frames, and the read after the deadline resolved the call.
C10_Witness ==
    /\ snd.pc = "panic"
    /\ now > readers[snd.cur].end
    /\ readers[snd.cur].last = "packet"
    /\ Len(readers[snd.cur].popped) >= 2
    /\ Len(readers[snd.cur].out) = Len(readers[snd.cur].popped) - 1

\* C11: send returns the first frame, in push order on its cursor, that
\* carries the outbound payload: the frames it has taken from the stream
\* are the pushes since the cursor was registered, in order; a frame with
\* another payload is skipped; a frame with the payload resolves the call
\* with that frame whatever its identifier.
C11_FirstPayloadMatch ==
    snd.cur \in Cursors =>
        LET out == readers[snd.cur].out
        IN  /\ IsPrefix(out, Due(snd.cur))
            /\ \A k \in 1..Len(out) :
                   IF out[k].data = Outbound.data
                   THEN /\ k = Len(out)
                        /\ snd.pc = "ok"
                        /\ snd.result = out[k]
                   ELSE snd.pc = "ok" => k < Len(out)
            /\ snd.pc = "ok" => out # <<>>

\* C11 witness: send has skipped a frame with another payload and has
\* returned the next frame, which has the payload of the outbound frame and
\* another identifier.
C11_Witness ==
    /\ snd.pc = "ok"
    /\ Len(readers[snd.cur].out) = 2
    /\ readers[snd.cur].out[1].data # Outbound.data
    /\ snd.result.data = Outbound.data
    /\ snd.result.id # Outbound.id

\* the consumer of cursor c takes a step of its read
ReaderMoves(c) == readers'[c] # readers[c]

\* C14: a read of a cursor whose queue is empty and whose liveness flag is
\* set goes to the backoff and returns the idle marker Some(None), however
\* many reads came before; a read that finds a frame returns it; a read
\* returns end-of-stream only when close() has cleared the flag of the
\* cursor.
C14_IdleNotClosed ==
    [][\A c \in Cursors :
          ReaderMoves(c) =>
              /\ ( /\ readers[c].st = "ready"
                   /\ iters[c].running
                   /\ iters[c].data = <<>> ) =>
                      /\ readers'[c].st = "sleeping"
                      /\ readers'[c].last = readers[c].last
              /\ readers[c].st = "sleeping" =>
                      /\ readers'[c].last = "idle"
                      /\ readers'[c].st = "ready"
              /\ ( /\ readers[c].st = "ready"
                   /\ iters[c].running
                   /\ iters[c].data # <<>> ) =>
                      /\ readers'[c].last = "packet"
                      /\ readers'[c].popped =
                             Append(readers[c].popped, Head(iters[c].data))
              /\ readers'[c].last = "closed" =>
                      /\ ~iters[c].running
                      /\ op.kind = "close" \/ closes.n >= 1]_vars

\* C14 witness: an open cursor has returned the idle marker twice and then
\* the first frame pushed to it.
C14_Witness ==
    \E c \in Cursors :
        /\ iters[c].running
        /\ readers[c].idles >= 2
        /\ readers[c].last = "packet"
        /\ Len(readers[c].popped) = 1

C16_CloseIdempotent ==
    [][( /\ op.kind = "close"
         /\ closes.n >= 1
         /\ closes.upTo = Len(iters) ) => iters' = iters]_vars

\* C16 witness: a second close() has passed a cursor that the first one had
\* closed with a frame in its queue.
C16_Witness ==
    /\ op.kind = "close"
    /\ op.idx > 1
    /\ closes.n >= 1
    /\ closes.upTo = Len(iters)
    /\ iters[1].data # <<>>

Workers == 1..Len(workers)

Active == {w \in Workers : workers[w].pc # "done"}

AllDone == Active = {}

\* C12: once close() of the connection has returned, no further frame is
\* pushed to the bus, and when the worker has exited every cursor that was
\* registered at the time of the close reads end-of-stream.
C12_StopIsTerminal ==
    conn.closed =>
        /\ Len(pushed) = conn.pushedAtClose
        /\ (workers # <<>> /\ AllDone) =>
               \A c \in 1..conn.cursorsAtClose : NextResult(c) = Closed

\* C13: at most one polling worker is in its loop at any time, for every
\* sequence of run() and close() calls.
C13_OneWorker == Cardinality(Active) <= 1

\* C17: a worker that finds the run flag clear at the top of its loop
\* exits and never polls again, and under fair scheduling a cleared run
\* flag leads to every worker having exited, a pending error backoff
\* included, unless run() raises the flag again.
C17_StopTerminates ==
    /\ [][\A w \in Workers :
             /\ ( /\ ~running
                  /\ workers[w].pc = "top"
                  /\ workers'[w] # workers[w] ) => workers'[w].pc = "done"
             /\ workers[w].pc = "done" => workers'[w].pc = "done"]_vars
    /\ (~running) ~> (running \/ AllDone)

\* C17 witness: the connection is closed, the flag is clear, and a worker
\* that went through an error backoff has exited.
C17_Witness ==
    /\ conn.closed
    /\ ~running
    /\ \E w \in Workers : workers[w].pc = "done" /\ workers[w].errs >= 1

\* C18: a poll that returns an error or no data pushes nothing, leaves the
\* run flag alone and does not end the loop; an error is followed by the
\* 250 ms backoff and then by the top of the loop again, and a frame of a
\* later poll has reached the queue of every registered cursor when its
\* push returns.
C18_PollErrorsAbsorbed ==
    [][\A w \in Workers :
         /\ (workers[w].pc = "read" /\ workers'[w].pc \in {"backoff", "top"}) =>
                pushed' = pushed /\ iters' = iters /\ running' = running
         /\ workers[w].pc = "read" =>
                workers'[w].pc \in {"read", "push", "top", "backoff"}
         /\ workers'[w].errs > workers[w].errs =>
                /\ workers'[w].pc = "backoff"
                /\ workers'[w].wake = now + ErrorBackoff
         /\ workers[w].pc = "backoff" =>
                /\ workers'[w].pc \in {"backoff", "top"}
                /\ workers'[w].pc = "top" => now >= workers[w].wake
         /\ (workers[w].pc = "push" /\ workers'[w].pc = "top") =>
                \A c \in Cursors :
                    /\ iters'[c].data # <<>>
                    /\ iters'[c].data[Len(iters'[c].data)] =
                           pushed[Len(pushed)]]_vars

\* C18 witness: the only worker had a read error, slept, polled again, and
\* the push of the frame of that later poll has reached the queues of two
\* cursors.
C18_Witness ==
    /\ Len(workers) = 1
    /\ workers[1].errs >= 1
    /\ workers[1].pc = "push"
    /\ now >= ErrorBackoff
    /\ op.kind = "push"
    /\ op.idx > Len(iters)
    /\ Len(iters) >= 2
    /\ \A c \in Cursors :
           /\ iters[c].data # <<>>
           /\ iters[c].data[Len(iters[c].data)] = pushed[Len(pushed)]

\* C20: a run() whose handshake fails counts as one attempt and changes
\* neither the run flag, nor the workers, nor the bus; as long as no run()
\* has succeeded the flag is false, there is no worker and no frame has
\* been pushed.
C20_FailedOpenStartsNothing ==
    [][/\ conn'.failed > conn.failed =>
             /\ running' = running
             /\ workers' = workers
             /\ pushed' = pushed
             /\ iters' = iters
             /\ conn'.failed = conn.failed + 1
             /\ conn'.runs = conn.runs + 1
       /\ conn'.runs = conn'.failed =>
             /\ ~running'
             /\ workers' = <<>>
             /\ pushed' = <<>>]_vars

\* C20 witness: two handshakes have failed, a cursor is registered, and
\* nothing runs.
C20_Witness ==
    /\ conn.failed >= 2
    /\ conn.runs = conn.failed
    /\ Len(iters) >= 1
    /\ ~running
    /\ workers = <<>>

(* ---------------------- registry properties --------------------------- *)
\* C21: no step shortens the registry or moves a cursor in it: it holds one
\* cursor for every iter(), iter_for() and send() call made so far, also
\* after a drop, the end of a sequence, the return of send or a close, and
\* every push has reached the queue of every cursor registered before it,
\* whether the cursor is closed or its reader is gone.
C21_RegistryOnlyGrows ==
    [][/\ Len(iters') >= Len(iters)
       /\ Len(iters') = Len(readers')
       /\ \A c \in 1..Len(iters) :
              /\ readers'[c].reg = readers[c].reg
              /\ readers'[c].kind = readers[c].kind
       /\ \A c \in 1..Len(iters') : Delivered(c)' = Due(c)']_vars

\* C21 witness: a push has appended its frame to the queue of a cursor that
\* a close had flagged before and whose reader has dropped it.
C21_Witness ==
    /\ op.kind = "push"
    /\ \E c \in Cursors :
           /\ op.idx > c
           /\ ~iters[c].running
           /\ readers[c].st = "dropped"
           /\ iters[c].data # <<>>
           /\ iters[c].data[Len(iters[c].data)] = op.item

\* C22: a cursor registered by iter() starts live with an empty queue, and
\* once a close() has completed, every cursor registered after the last
\* completed close and not reached by a later one is live, has never read
\* end-of-stream, reads idle when its queue is empty, and has received
\* every frame pushed since its registration.
C22_CursorAfterCloseIsLive ==
    [][/\ Len(iters') > Len(iters) =>
              iters'[Len(iters')] = [data |-> <<>>, running |-> TRUE]
       /\ closes'.n >= 1 =>
              \A c \in 1..Len(iters') :
                  ( /\ c > closes'.upTo
                    /\ ~(op'.kind = "close" /\ op'.idx > c) ) =>
                      /\ iters'[c].running
                      /\ readers'[c].last # "closed"
                      /\ iters'[c].data = <<>> =>
                             NextResult(c)' = SomeItem(None)
                      /\ readers'[c].out \o iters'[c].data = Due(c)']_vars

\* C22 witness: a close() has completed, and a cursor registered after it
\* is live, has read idle and has yielded a frame.
C22_Witness ==
    /\ closes.n >= 1
    /\ op.kind = "none"
    /\ \E c \in Cursors :
           /\ c > closes.upTo
           /\ iters[c].running
           /\ readers[c].idles >= 1
           /\ Len(readers[c].out) >= 1
====
